---- MODULE Spec2Model ----
(***************************************************************************)
(* Pipeline / job status tracking of eta.core.status.                      *)
(*                                                                         *)
(* One PipelineStatus object is followed at a time.  Python values are     *)
(* tagged records [kind, v]: None, a datetime (an instant), a str holding  *)
(* an ISO-8601 text, and a reference to a JobStatus.  The jobs list only   *)
(* ever grows and never holds the same object twice, so a reference to a   *)
(* JobStatus object is its position in p.jobs and the reference None is    *)
(* position 0.  The wall clock is a counter that datetime.now() reads; it  *)
(* may or may not have advanced since the previous read.                   *)
(***************************************************************************)
EXTENDS Integers, Sequences, FiniteSets, TLC

\* ---- bounds of the model ----
MaxTime == 1
MaxSize == 2
MaxLifeSize == 5
MaxJobSize == 4
MaxLoadSize == 3
MaxOwnSize == 4
MaxNewSize == 3
MaxObjs == 2

\* ---- Python values ----
None == [kind |-> "none", v |-> 0]
Instant(n) == [kind |-> "datetime", v |-> n]
IsoStr(n) == [kind |-> "str", v |-> n]
JobRef(i) == IF i = 0 THEN None ELSE [kind |-> "job", v |-> i]

\* datetime.isoformat(): the ISO-8601 text of an instant
isoformat(t) == IsoStr(t.v)

\* eta.core.utils.parse_isotime: the instant an ISO-8601 text denotes
parse_isotime(s) == Instant(s.v)

\* datetime.now(): the clock value read when the clock has advanced by tick
datetime_now(clk, tick) == clk + tick

Ticks == {0, 1}

\* ---- PipelineState / JobState ----
READY == "READY"
QUEUED == "QUEUED"
SCHEDULED == "SCHEDULED"
SKIPPED == "SKIPPED"
RUNNING == "RUNNING"
FAILED == "FAILED"
COMPLETE == "COMPLETE"

PipelineState == {READY, QUEUED, SCHEDULED, RUNNING, FAILED, COMPLETE}
JobState == {READY, QUEUED, SCHEDULED, SKIPPED, RUNNING, FAILED, COMPLETE}

\* ---- inputs of the driver ----
NoName == "<None>"
JobNames == {"stage1", "stage2"}
LifeJobNames == {"resize"}
PipelineStartMsg == "Pipeline started"
PipelineCompleteMsg == "Pipeline completed"
PipelineFailMsg == "Pipeline failed"
JobSkipMsg == "Job skipped"
JobStartMsg == "Job started"
JobCompleteMsg == "Job completed"
JobFailMsg == "Job failed"
CustomMsg == "note"
Sinks == {"sinkA", "sinkB"}
NoSink == "None"

\* ---- StatusMessage ----
\* StatusMessage.__init__: self.time = time or datetime.now()
StatusMessage(message, time, now) ==
    [message |-> message,
     time |-> IF time = None THEN Instant(now) ELSE time]

\* ---- JobStatus ----
\* JobStatus.__init__ with the default arguments replaced by the given ones
JobStatus(name, state, start_time, complete_time, fail_time, messages) ==
    [name |-> name, state |-> state, start_time |-> start_time,
     complete_time |-> complete_time, fail_time |-> fail_time,
     messages |-> messages]

NewJobStatus(name) == JobStatus(name, READY, None, None, None, <<>>)

\* Every method below takes the object, its arguments, the clock before the
\* call and the clock's advance, and yields the object after the call, the
\* returned value and the clock after the call.
JobStatus_add_message(self, message, clk, tick) ==
    LET now == datetime_now(clk, tick)
        status_message == StatusMessage(message, None, now)
    IN  [self |-> [self EXCEPT !.messages = Append(@, status_message)],
         ret |-> status_message.time,
         clk |-> now]

\* skip() that records the time of the skip as the job's complete_time
JobStatus_skip_Stamps(self, message, clk, tick) ==
    LET r == JobStatus_add_message(self, message, clk, tick)
    IN  [self |-> [r.self EXCEPT !.complete_time = r.ret, !.state = SKIPPED],
         ret |-> None, clk |-> r.clk]

\* skip() that only skips a job that is READY
JobStatus_skip_FromReady(self, message, clk, tick) ==
    IF self.state # READY
    THEN [self |-> self, ret |-> None, clk |-> clk]
    ELSE LET r == JobStatus_add_message(self, message, clk, tick)
         IN  [self |-> [r.self EXCEPT !.state = SKIPPED],
              ret |-> None, clk |-> r.clk]

JobStatus_skip(self, message, clk, tick) ==
    LET r == JobStatus_add_message(self, message, clk, tick)
    IN  [self |-> [r.self EXCEPT !.state = SKIPPED],
         ret |-> None, clk |-> r.clk]

\* start() that puts a READY job in QUEUED before it runs
JobStatus_start_Queued(self, message, clk, tick) ==
    LET r == JobStatus_add_message(self, message, clk, tick)
    IN  [self |-> [r.self EXCEPT !.start_time = r.ret,
                                 !.state = IF self.state = READY THEN QUEUED ELSE RUNNING],
         ret |-> None, clk |-> r.clk]

JobStatus_start(self, message, clk, tick) ==
    LET r == JobStatus_add_message(self, message, clk, tick)
    IN  [self |-> [r.self EXCEPT !.start_time = r.ret, !.state = RUNNING],
         ret |-> None, clk |-> r.clk]

\* complete() that returns early on a COMPLETE job, as the pipeline's does
JobStatus_complete_Guarded(self, message, clk, tick) ==
    IF self.state = COMPLETE
    THEN [self |-> self, ret |-> None, clk |-> clk]
    ELSE LET r == JobStatus_add_message(self, message, clk, tick)
         IN  [self |-> [r.self EXCEPT !.complete_time = r.ret, !.state = COMPLETE],
              ret |-> None, clk |-> r.clk]

JobStatus_complete(self, message, clk, tick) ==
    LET r == JobStatus_add_message(self, message, clk, tick)
    IN  [self |-> [r.self EXCEPT !.complete_time = r.ret, !.state = COMPLETE],
         ret |-> None, clk |-> r.clk]

\* fail() that clears complete_time, so that a job has one outcome time
JobStatus_fail_Exclusive(self, message, clk, tick) ==
    LET r == JobStatus_add_message(self, message, clk, tick)
    IN  [self |-> [r.self EXCEPT !.fail_time = r.ret, !.complete_time = None,
                                 !.state = FAILED],
         ret |-> None, clk |-> r.clk]

JobStatus_fail(self, message, clk, tick) ==
    LET r == JobStatus_add_message(self, message, clk, tick)
    IN  [self |-> [r.self EXCEPT !.fail_time = r.ret, !.state = FAILED],
         ret |-> None, clk |-> r.clk]

\* ---- PipelineStatus ----
\* PipelineStatus.__init__: the serialized fields; the two runtime fields
\* _publish_callback and _active_job are the variables sink and active.
PipelineStatus(name, state, start_time, complete_time, fail_time, messages, jobs) ==
    [name |-> IF name = NoName THEN "" ELSE name,
     state |-> state, start_time |-> start_time,
     complete_time |-> complete_time, fail_time |-> fail_time,
     messages |-> messages, jobs |-> jobs]

\* add_message() that inserts the message at the front of the log
PipelineStatus_add_message_Front(self, message, clk, tick) ==
    LET now == datetime_now(clk, tick)
        status_message == StatusMessage(message, None, now)
    IN  [self |-> [self EXCEPT !.messages = <<status_message>> \o @],
         ret |-> status_message.time,
         clk |-> now]

PipelineStatus_add_message(self, message, clk, tick) ==
    LET now == datetime_now(clk, tick)
        status_message == StatusMessage(message, None, now)
    IN  [self |-> [self EXCEPT !.messages = Append(@, status_message)],
         ret |-> status_message.time,
         clk |-> now]

\* start() that records the message and the state but not the start time
PipelineStatus_start_KeepsTime(self, message, clk, tick) ==
    IF self.state = RUNNING
    THEN [self |-> self, ret |-> None, clk |-> clk]
    ELSE LET r == PipelineStatus_add_message(self, message, clk, tick)
         IN  [self |-> [r.self EXCEPT !.state = RUNNING],
              ret |-> None, clk |-> r.clk]

\* start() without the "already running" early return
PipelineStatus_start_NoGuard(self, message, clk, tick) ==
    LET r == PipelineStatus_add_message(self, message, clk, tick)
    IN  [self |-> [r.self EXCEPT !.start_time = r.ret, !.state = RUNNING],
         ret |-> None, clk |-> r.clk]

PipelineStatus_start(self, message, clk, tick) ==
    IF self.state = RUNNING
    THEN [self |-> self, ret |-> None, clk |-> clk]
    ELSE LET r == PipelineStatus_add_message(self, message, clk, tick)
         IN  [self |-> [r.self EXCEPT !.start_time = r.ret, !.state = RUNNING],
              ret |-> None, clk |-> r.clk]

\* complete() that marks the pipeline FAILED when one of its jobs has failed
PipelineStatus_complete_JobsAware(self, message, clk, tick) ==
    IF self.state = COMPLETE
    THEN [self |-> self, ret |-> None, clk |-> clk]
    ELSE LET r == PipelineStatus_add_message(self, message, clk, tick)
         IN  IF \E i \in DOMAIN self.jobs : self.jobs[i].state = FAILED
             THEN [self |-> [r.self EXCEPT !.fail_time = r.ret, !.state = FAILED],
                   ret |-> None, clk |-> r.clk]
             ELSE [self |-> [r.self EXCEPT !.complete_time = r.ret, !.state = COMPLETE],
                   ret |-> None, clk |-> r.clk]

\* complete() that also returns early on a FAILED pipeline
PipelineStatus_complete_Terminal(self, message, clk, tick) ==
    IF self.state \in {COMPLETE, FAILED}
    THEN [self |-> self, ret |-> None, clk |-> clk]
    ELSE LET r == PipelineStatus_add_message(self, message, clk, tick)
         IN  [self |-> [r.self EXCEPT !.complete_time = r.ret, !.state = COMPLETE],
              ret |-> None, clk |-> r.clk]

\* complete() without the "already complete" early return
PipelineStatus_complete_NoGuard(self, message, clk, tick) ==
    LET r == PipelineStatus_add_message(self, message, clk, tick)
    IN  [self |-> [r.self EXCEPT !.complete_time = r.ret, !.state = COMPLETE],
         ret |-> None, clk |-> r.clk]

PipelineStatus_complete(self, message, clk, tick) ==
    IF self.state = COMPLETE
    THEN [self |-> self, ret |-> None, clk |-> clk]
    ELSE LET r == PipelineStatus_add_message(self, message, clk, tick)
         IN  [self |-> [r.self EXCEPT !.complete_time = r.ret, !.state = COMPLETE],
              ret |-> None, clk |-> r.clk]

\* fail() that reads the clock again for fail_time, after the clock advanced
PipelineStatus_fail_OwnClock(self, message, clk, tick) ==
    IF self.state = FAILED
    THEN [self |-> self, ret |-> None, clk |-> clk]
    ELSE LET r == PipelineStatus_add_message(self, message, clk, tick)
         IN  [self |-> [r.self EXCEPT !.fail_time = Instant(r.clk + 1),
                                      !.state = FAILED],
              ret |-> None, clk |-> r.clk]

\* fail() that also marks the RUNNING jobs of the pipeline FAILED
PipelineStatus_fail_FailsJobs(self, message, clk, tick) ==
    IF self.state = FAILED
    THEN [self |-> self, ret |-> None, clk |-> clk]
    ELSE LET r == PipelineStatus_add_message(self, message, clk, tick)
             jobs == [i \in DOMAIN self.jobs |->
                         IF self.jobs[i].state = RUNNING
                         THEN [self.jobs[i] EXCEPT !.state = FAILED]
                         ELSE self.jobs[i]]
         IN  [self |-> [r.self EXCEPT !.fail_time = r.ret, !.state = FAILED,
                                      !.jobs = jobs],
              ret |-> None, clk |-> r.clk]

\* fail() that also returns early on a COMPLETE pipeline
PipelineStatus_fail_Terminal(self, message, clk, tick) ==
    IF self.state \in {FAILED, COMPLETE}
    THEN [self |-> self, ret |-> None, clk |-> clk]
    ELSE LET r == PipelineStatus_add_message(self, message, clk, tick)
         IN  [self |-> [r.self EXCEPT !.fail_time = r.ret, !.state = FAILED],
              ret |-> None, clk |-> r.clk]

PipelineStatus_fail(self, message, clk, tick) ==
    IF self.state = FAILED
    THEN [self |-> self, ret |-> None, clk |-> clk]
    ELSE LET r == PipelineStatus_add_message(self, message, clk, tick)
         IN  [self |-> [r.self EXCEPT !.fail_time = r.ret, !.state = FAILED],
              ret |-> None, clk |-> r.clk]

\* add_job() that returns the job that already has this name, when there is one
PipelineStatus_add_job_Lookup(self, name) ==
    IF \E i \in DOMAIN self.jobs : self.jobs[i].name = name
    THEN LET i == CHOOSE i \in DOMAIN self.jobs : self.jobs[i].name = name
         IN  [self |-> self, active |-> i, ret |-> JobRef(i)]
    ELSE LET jobs == Append(self.jobs, NewJobStatus(name))
         IN  [self |-> [self EXCEPT !.jobs = jobs],
              active |-> Len(jobs),
              ret |-> JobRef(Len(jobs))]

\* add_job() that puts the new job in front of the others
PipelineStatus_add_job_Prepend(self, name) ==
    LET jobs == <<NewJobStatus(name)>> \o self.jobs
    IN  [self |-> [self EXCEPT !.jobs = jobs],
         active |-> 1,
         ret |-> JobRef(1)]

\* add_job() that returns the new job but leaves _active_job on the job that
\* was last before the call
PipelineStatus_add_job_StaleActive(self, name) ==
    LET jobs == Append(self.jobs, NewJobStatus(name))
    IN  [self |-> [self EXCEPT !.jobs = jobs],
         active |-> Len(self.jobs),
         ret |-> JobRef(Len(jobs))]

\* PipelineStatus.add_job: the pipeline after the call, the new value of
\* _active_job and the returned reference
PipelineStatus_add_job(self, name) ==
    LET jobs == Append(self.jobs, NewJobStatus(name))
    IN  [self |-> [self EXCEPT !.jobs = jobs],
         active |-> Len(jobs),
         ret |-> JobRef(Len(jobs))]

\* PipelineStatus.active_job: the property returns self._active_job
active_job(activeRef) == JobRef(activeRef)

\* PipelineStatus.set_publish_callback: the new value of _publish_callback
PipelineStatus_set_publish_callback(publish_callback) == publish_callback

\* "if self._publish_callback:" a function is true, None is false
Truthy(callback) == callback # NoSink

\* One call of a sink: the callable, the object passed to it (the identity of
\* a pipeline object) and what the sink did: "return" or "raise".  A sink
\* reads the pipeline it is given and does not change it.
SinkCall(callback, arg, outcome) ==
    [sink |-> callback, arg |-> arg, outcome |-> outcome]

\* the exception a failing sink raises
SinkError == "SinkError"

\* publish() that calls self._publish_callback without testing it: calling
\* None raises TypeError
PipelineStatus_publish_NoGuard(selfRef, callback, outcome) ==
    IF Truthy(callback)
    THEN [calls |-> <<SinkCall(callback, selfRef, outcome)>>,
          exc |-> IF outcome = "raise" THEN SinkError ELSE "none"]
    ELSE [calls |-> <<>>, exc |-> "TypeError"]

\* publish() that catches what the sink raises
PipelineStatus_publish_Swallow(selfRef, callback, outcome) ==
    IF Truthy(callback)
    THEN [calls |-> <<SinkCall(callback, selfRef, outcome)>>, exc |-> "none"]
    ELSE [calls |-> <<>>, exc |-> "none"]

\* PipelineStatus.publish: the calls it makes to the sink and the exception
\* that leaves publish() ("none": it returns).  selfRef is the identity of the
\* pipeline object and outcome is what the sink does when it is called.
PipelineStatus_publish(selfRef, callback, outcome) ==
    IF Truthy(callback)
    THEN [calls |-> <<SinkCall(callback, selfRef, outcome)>>,
          exc |-> IF outcome = "raise" THEN SinkError ELSE "none"]
    ELSE [calls |-> <<>>, exc |-> "none"]

\* ---- serialized form ----
\* A JSON dictionary is a function from its keys; a key that is absent is
\* outside its DOMAIN.
SerialValue(v) == IF v.kind = "datetime" THEN isoformat(v) ELSE v

StatusMessage_serialize(m) ==
    [message |-> m.message, time |-> SerialValue(m.time)]

JobStatus_serialize(j) ==
    [name |-> j.name, state |-> j.state,
     start_time |-> SerialValue(j.start_time),
     complete_time |-> SerialValue(j.complete_time),
     fail_time |-> SerialValue(j.fail_time),
     messages |-> [i \in DOMAIN j.messages |-> StatusMessage_serialize(j.messages[i])]]

PipelineStatus_serialize(q) ==
    [name |-> q.name, state |-> q.state,
     start_time |-> SerialValue(q.start_time),
     complete_time |-> SerialValue(q.complete_time),
     fail_time |-> SerialValue(q.fail_time),
     messages |-> [i \in DOMAIN q.messages |-> StatusMessage_serialize(q.messages[i])],
     jobs |-> [i \in DOMAIN q.jobs |-> JobStatus_serialize(q.jobs[i])]]

\* ---- from_dict ----
\* The result of a from_dict: the object built, or the exception raised.
Built(o) == [ok |-> TRUE, self |-> o, exc |-> "none"]
Raised(e) == [ok |-> FALSE, self |-> None, exc |-> e]
Has(d, k) == k \in DOMAIN d
AllOk(rs) == \A i \in DOMAIN rs : rs[i].ok
Selves(rs) == [i \in DOMAIN rs |-> rs[i].self]

\* d.get(k, None) followed by "if v is not None: v = parse_isotime(v)"
GetTime(d, k) ==
    IF Has(d, k) /\ d[k] # None THEN parse_isotime(d[k]) ELSE None

StatusMessage_from_dict(d, now) ==
    IF ~Has(d, "message") THEN Raised("KeyError")
    ELSE Built(StatusMessage(d["message"], GetTime(d, "time"), now))

JobStatus_from_dict(d, now) ==
    LET start_time == GetTime(d, "start_time")
        complete_time == GetTime(d, "complete_time")
        fail_time == GetTime(d, "fail_time")
        ms == IF Has(d, "messages")
              THEN [i \in DOMAIN d["messages"] |->
                        StatusMessage_from_dict(d["messages"][i], now)]
              ELSE <<>>
    IN  IF ~AllOk(ms) THEN Raised("KeyError")
        ELSE IF ~Has(d, "name") THEN Raised("KeyError")
        ELSE Built(JobStatus(d["name"], READY, start_time, complete_time,
                             fail_time, Selves(ms)))

PipelineStatus_from_dict(d, now) ==
    IF \E k \in {"name", "state", "start_time", "complete_time", "fail_time", "messages"} :
           ~Has(d, k)
    THEN Raised("KeyError")
    ELSE LET ms == [i \in DOMAIN d["messages"] |->
                        StatusMessage_from_dict(d["messages"][i], now)]
             js == IF Has(d, "jobs")
                   THEN [i \in DOMAIN d["jobs"] |-> JobStatus_from_dict(d["jobs"][i], now)]
                   ELSE <<>>
         IN  IF ~AllOk(ms) \/ ~AllOk(js) THEN Raised("KeyError")
             ELSE Built(PipelineStatus(d["name"], d["state"], d["start_time"],
                                       d["complete_time"], d["fail_time"],
                                       Selves(ms), Selves(js)))

\* ---- state ----
VARIABLES
    p,        \* the serialized fields of the PipelineStatus object
    active,   \* p._active_job
    sink,     \* p._publish_callback
    clock,    \* the wall clock
    obj,      \* identity of the PipelineStatus object (a from_dict makes a new one)
    added,    \* number of add_job calls made on this object
    last      \* the call that produced this state and what it returned

vars == <<p, active, sink, clock, obj, added, last>>

\* The record of a call: the method, the job it was called on (0: the
\* pipeline), the state of that object before the call, the returned value,
\* the callable passed (set_publish_callback), the name passed (add_job), or
\* for a from_dict the sink of the serialized pipeline or the key that its
\* payload lacked,
\* the calls made to the sink, the exception that left the method and the
\* sink the pipeline had when the call was made.
Call(op, job, pre, ret) ==
    [op |-> op, job |-> job, pre |-> pre, ret |-> ret, arg |-> "",
     calls |-> <<>>, exc |-> "none", oldsink |-> sink]

Jobs == 1..Len(p.jobs)

RECURSIVE SumLen(_)
SumLen(js) == IF js = <<>> THEN 0 ELSE Len(Head(js).messages) + SumLen(Tail(js))

\* number of JobStatus and StatusMessage objects held by a pipeline
Size(q) == Len(q.jobs) + Len(q.messages) + SumLen(q.jobs)

Init ==
    /\ p = PipelineStatus("ingest", READY, None, None, None, <<>>, <<>>)
    /\ active = 0
    /\ sink = NoSink
    /\ clock = 0
    /\ obj = 1
    /\ added = 0
    /\ last = Call("__init__", 0, READY, None)

\* ---- operations on the pipeline ----
\* budget bounds the number of jobs and messages the driver lets a pipeline
\* hold
PipelineCall(op, r, budget) ==
    /\ Size(r.self) <= budget
    /\ r.clk <= MaxTime
    /\ p' = r.self
    /\ clock' = r.clk
    /\ last' = Call(op, 0, p.state, r.ret)
    /\ UNCHANGED <<active, sink, obj, added>>

AddMessage(budget) ==
    \E tick \in Ticks :
        PipelineCall("add_message",
                     PipelineStatus_add_message(p, CustomMsg, clock, tick), budget)

Start(messages, budget) ==
    \E message \in messages, tick \in Ticks :
        PipelineCall("start", PipelineStatus_start(p, message, clock, tick), budget)

Complete(budget) ==
    \E tick \in Ticks :
        PipelineCall("complete",
                     PipelineStatus_complete(p, PipelineCompleteMsg, clock, tick), budget)

Fail(budget) ==
    \E tick \in Ticks :
        PipelineCall("fail", PipelineStatus_fail(p, PipelineFailMsg, clock, tick), budget)

AddJob(names, budget) ==
    \E name \in names :
        LET r == PipelineStatus_add_job(p, name)
        IN  /\ Size(r.self) <= budget
            /\ p' = r.self
            /\ active' = r.active
            /\ added' = added + 1
            /\ last' = [Call("add_job", 0, p.state, r.ret) EXCEPT !.arg = name]
            /\ UNCHANGED <<sink, clock, obj>>

\* set_publish_callback that keeps the sink the pipeline already has
SetPublishCallback_KeepsFirst ==
    \E cb \in Sinks \cup {NoSink} :
        /\ sink' = IF sink = NoSink THEN PipelineStatus_set_publish_callback(cb) ELSE sink
        /\ last' = [Call("set_publish_callback", 0, p.state, None) EXCEPT !.arg = cb]
        /\ UNCHANGED <<p, active, clock, obj, added>>

SetPublishCallback ==
    \E cb \in Sinks \cup {NoSink} :
        /\ sink' = PipelineStatus_set_publish_callback(cb)
        /\ last' = [Call("set_publish_callback", 0, p.state, None) EXCEPT !.arg = cb]
        /\ UNCHANGED <<p, active, clock, obj, added>>

Publish ==
    \E outcome \in {"return", "raise"} :
        LET r == PipelineStatus_publish(obj, sink, outcome)
        IN  /\ last' = [Call("publish", 0, p.state, None) EXCEPT
                            !.calls = r.calls, !.exc = r.exc]
            /\ UNCHANGED <<p, active, sink, clock, obj, added>>

\* from_dict that carries the sink and the active job of the serialized
\* pipeline over to the loaded one
FromDict_KeepsRuntime ==
    LET r == PipelineStatus_from_dict(PipelineStatus_serialize(p), clock)
    IN  /\ obj < MaxObjs
        /\ r.ok
        /\ p' = r.self
        /\ obj' = obj + 1
        /\ last' = [Call("from_dict", 0, p.state, None) EXCEPT !.arg = sink]
        /\ UNCHANGED <<active, sink, added, clock>>

\* PipelineStatus.from_dict applied to the serialized form of the pipeline:
\* the driver continues with the object that was loaded.  The call record
\* keeps the sink of the pipeline that was serialized (arg).
FromDict ==
    LET r == PipelineStatus_from_dict(PipelineStatus_serialize(p), clock)
    IN  /\ obj < MaxObjs
        /\ r.ok
        /\ p' = r.self
        /\ active' = 0
        /\ sink' = NoSink
        /\ added' = 0
        /\ obj' = obj + 1
        /\ last' = [Call("from_dict", 0, p.state, None) EXCEPT !.arg = sink]
        /\ UNCHANGED clock

\* the keys of the serialized form of a pipeline and of a job
PipelineKeys ==
    {"name", "state", "start_time", "complete_time", "fail_time", "messages", "jobs"}
JobKeys == PipelineKeys \ {"jobs"}

\* a JSON dictionary without one of its keys
Without(d, k) == [x \in (DOMAIN d) \ {k} |-> d[x]]

\* The serialized form of the pipeline in which the key k is missing: from
\* the pipeline's dictionary (i = 0) or from the dictionary of its i-th job.
PayloadLacking(q, i, k) ==
    LET d == PipelineStatus_serialize(q)
    IN  IF i = 0 THEN Without(d, k)
        ELSE [d EXCEPT !["jobs"] = [@ EXCEPT ![i] = Without(@, k)]]

\* PipelineStatus.from_dict (and through it JobStatus.from_dict) applied to a
\* payload that lacks one key.  When it returns, the driver continues with
\* the object that was loaded; when it raises, with the object it had.  The
\* call record names the dictionary (job) and the key (arg) that was missing.
FromDictLacking ==
    \E i \in {0} \cup Jobs, k \in PipelineKeys :
        LET r == PipelineStatus_from_dict(PayloadLacking(p, i, k), clock)
            pre == IF i = 0 THEN p.state ELSE p.jobs[i].state
        IN  /\ obj < MaxObjs
            /\ i # 0 => k \in JobKeys
            /\ IF r.ok
               THEN /\ p' = r.self
                    /\ active' = 0
                    /\ sink' = NoSink
                    /\ added' = 0
                    /\ obj' = obj + 1
               ELSE UNCHANGED <<p, active, sink, added, obj>>
            /\ last' = [Call("from_dict", i, pre, None) EXCEPT !.arg = k, !.exc = r.exc]
            /\ UNCHANGED clock

\* ---- operations on a job of the pipeline ----
JobCall(op, i, r, budget) ==
    /\ Size([p EXCEPT !.jobs[i] = r.self]) <= budget
    /\ r.clk <= MaxTime
    /\ p' = [p EXCEPT !.jobs[i] = r.self]
    /\ clock' = r.clk
    /\ last' = Call(op, i, p.jobs[i].state, r.ret)
    /\ UNCHANGED <<active, sink, obj, added>>

JobAddMessage(budget) ==
    \E i \in Jobs, tick \in Ticks :
        JobCall("job.add_message", i,
                JobStatus_add_message(p.jobs[i], CustomMsg, clock, tick), budget)

JobSkip(budget) ==
    \E i \in Jobs, tick \in Ticks :
        JobCall("job.skip", i, JobStatus_skip(p.jobs[i], JobSkipMsg, clock, tick), budget)

JobStart(budget) ==
    \E i \in Jobs, tick \in Ticks :
        JobCall("job.start", i, JobStatus_start(p.jobs[i], JobStartMsg, clock, tick), budget)

JobComplete(budget) ==
    \E i \in Jobs, tick \in Ticks :
        JobCall("job.complete", i,
                JobStatus_complete(p.jobs[i], JobCompleteMsg, clock, tick), budget)

JobFail(budget) ==
    \E i \in Jobs, tick \in Ticks :
        JobCall("job.fail", i, JobStatus_fail(p.jobs[i], JobFailMsg, clock, tick), budget)

\* ---- specifications ----
\* Spec: a driver that uses every operation, on a small pipeline.
Next ==
    \/ AddMessage(MaxSize)
    \/ Start({PipelineStartMsg, CustomMsg}, MaxSize)
    \/ Complete(MaxSize)
    \/ Fail(MaxSize)
    \/ AddJob(JobNames, MaxSize)
    \/ SetPublishCallback
    \/ Publish
    \/ FromDict
    \/ JobAddMessage(MaxSize)
    \/ JobSkip(MaxSize)
    \/ JobStart(MaxSize)
    \/ JobComplete(MaxSize)
    \/ JobFail(MaxSize)

Spec == Init /\ [][Next]_vars

\* SpecLife: a driver that only adds jobs and moves the pipeline and its jobs
\* through their states, with the default messages, on a larger pipeline.
NextLife ==
    \/ Start({PipelineStartMsg}, MaxLifeSize)
    \/ Complete(MaxLifeSize)
    \/ Fail(MaxLifeSize)
    \/ AddJob(LifeJobNames, MaxLifeSize)
    \/ JobSkip(MaxLifeSize)
    \/ JobStart(MaxLifeSize)
    \/ JobComplete(MaxLifeSize)
    \/ JobFail(MaxLifeSize)

SpecLife == Init /\ [][NextLife]_vars

\* SpecJob: a driver that adds jobs to a READY pipeline and only calls the
\* jobs' methods.
NextJob ==
    \/ AddJob(LifeJobNames, MaxJobSize)
    \/ JobAddMessage(MaxJobSize)
    \/ JobSkip(MaxJobSize)
    \/ JobStart(MaxJobSize)
    \/ JobComplete(MaxJobSize)
    \/ JobFail(MaxJobSize)

SpecJob == Init /\ [][NextJob]_vars

\* SpecLoad: a driver that moves the pipeline and its jobs through their
\* states and loads it from a payload that lacks a key.
NextLoad ==
    \/ Start({PipelineStartMsg}, MaxLoadSize)
    \/ Complete(MaxLoadSize)
    \/ Fail(MaxLoadSize)
    \/ AddJob(LifeJobNames, MaxLoadSize)
    \/ JobSkip(MaxLoadSize)
    \/ JobStart(MaxLoadSize)
    \/ JobComplete(MaxLoadSize)
    \/ JobFail(MaxLoadSize)
    \/ FromDictLacking

SpecLoad == Init /\ [][NextLoad]_vars

\* SpecOwn: a driver that calls the methods of one pipeline and of its jobs
\* and never loads or publishes it.
NextOwn ==
    \/ AddMessage(MaxOwnSize)
    \/ Start({PipelineStartMsg}, MaxOwnSize)
    \/ Complete(MaxOwnSize)
    \/ Fail(MaxOwnSize)
    \/ AddJob(LifeJobNames, MaxOwnSize)
    \/ JobAddMessage(MaxOwnSize)
    \/ JobSkip(MaxOwnSize)
    \/ JobStart(MaxOwnSize)
    \/ JobComplete(MaxOwnSize)
    \/ JobFail(MaxOwnSize)

SpecOwn == Init /\ [][NextOwn]_vars

\* SpecNew: a driver that constructs the pipeline, its jobs and its messages
\* with or without a name or text (NoName stands for None; PipelineStatus()
\* is PipelineStatus(None) by the default of the argument).
InitNew ==
    \E name \in {"ingest", NoName} :
        /\ p = PipelineStatus(name, READY, None, None, None, <<>>, <<>>)
        /\ active = 0
        /\ sink = NoSink
        /\ clock = 0
        /\ obj = 1
        /\ added = 0
        /\ last = [Call("__init__", 0, READY, None) EXCEPT !.arg = name]

NextNew ==
    \/ Start({PipelineStartMsg, NoName}, MaxNewSize)
    \/ Complete(MaxNewSize)
    \/ Fail(MaxNewSize)
    \/ AddJob({"resize", NoName}, MaxNewSize)
    \/ JobStart(MaxNewSize)
    \/ JobComplete(MaxNewSize)

SpecNew == InitNew /\ [][NextNew]_vars

\* ---- properties ----
LastOf(seq) == seq[Len(seq)]
Runtime == <<active, sink, clock, obj, added>>

\* C1 as stated: after any call of p.start(), p.state is RUNNING and
\* p.start_time is the time of the last element of p.messages.
C1_StartTimeIsLastMessage ==
    last.op = "start" =>
        /\ p.state = RUNNING
        /\ p.messages # <<>>
        /\ p.start_time = LastOf(p.messages).time

\* C1 amended: after any call of p.start(), p.state is RUNNING; when the
\* pipeline was not RUNNING before the call, p.start_time is the time of the
\* last element of p.messages.
C1_StartSetsRunning ==
    last.op = "start" =>
        /\ p.state = RUNNING
        /\ last.pre # RUNNING =>
              /\ p.messages # <<>>
              /\ p.start_time = LastOf(p.messages).time

\* start() called on a COMPLETE pipeline, later than its completion
C1_Witness ==
    /\ last.op = "start"
    /\ last.pre = COMPLETE
    /\ Len(p.messages) = 2
    /\ p.messages[1].time # p.messages[2].time
    /\ p.start_time = p.messages[2].time

\* C2: start() on a pipeline that is already RUNNING changes nothing: the
\* messages, start_time, state, complete_time, fail_time, jobs and the active
\* job are what they were (and so are the sink and the clock).
C2_StartIdempotent ==
    [][(last'.op = "start" /\ p.state = RUNNING) =>
            /\ p' = p
            /\ UNCHANGED Runtime]_vars

\* start() called on a RUNNING pipeline that holds a later message: nothing
\* was recorded
C2_Witness ==
    /\ last.op = "start"
    /\ last.pre = RUNNING
    /\ p.state = RUNNING
    /\ Len(p.messages) = 2
    /\ p.start_time = p.messages[1].time
    /\ p.start_time # p.messages[2].time

\* C3: complete() on a COMPLETE pipeline leaves complete_time and the number
\* of messages unchanged, and fail() on a FAILED pipeline leaves fail_time and
\* the number of messages unchanged; from any other state the call appends one
\* message, sets the timestamp to that message's time and sets the state.
C3_CompleteFailIdempotent ==
    [][/\ last'.op = "complete" =>
            IF p.state = COMPLETE
            THEN /\ p'.complete_time = p.complete_time
                 /\ Len(p'.messages) = Len(p.messages)
            ELSE /\ Len(p'.messages) = Len(p.messages) + 1
                 /\ SubSeq(p'.messages, 1, Len(p.messages)) = p.messages
                 /\ p'.complete_time = LastOf(p'.messages).time
                 /\ p'.state = COMPLETE
       /\ last'.op = "fail" =>
            IF p.state = FAILED
            THEN /\ p'.fail_time = p.fail_time
                 /\ Len(p'.messages) = Len(p.messages)
            ELSE /\ Len(p'.messages) = Len(p.messages) + 1
                 /\ SubSeq(p'.messages, 1, Len(p.messages)) = p.messages
                 /\ p'.fail_time = LastOf(p'.messages).time
                 /\ p'.state = FAILED]_vars

\* complete() called on a COMPLETE pipeline that failed earlier: the log
\* still ends with the first completion
C3_Witness ==
    /\ last.op = "complete"
    /\ last.pre = COMPLETE
    /\ p.fail_time # None
    /\ LastOf(p.messages).message = PipelineCompleteMsg
    /\ p.complete_time = LastOf(p.messages).time

\* C4: every call of start(), complete() or fail() on a job, in any state of
\* the job, appends exactly one message to the job's messages, overwrites the
\* corresponding timestamp with that message's time (the time read by this
\* call) and sets the state to RUNNING, COMPLETE or FAILED.
C4_JobCallsNotIdempotent ==
    [][\A i \in Jobs :
        LET j == p.jobs[i]
            k == p'.jobs[i]
            Appended == /\ Len(k.messages) = Len(j.messages) + 1
                        /\ SubSeq(k.messages, 1, Len(j.messages)) = j.messages
                        /\ LastOf(k.messages).time = Instant(clock')
        IN  /\ (last'.op = "job.start" /\ last'.job = i) =>
                  /\ Appended
                  /\ k.start_time = LastOf(k.messages).time
                  /\ k.state = RUNNING
            /\ (last'.op = "job.complete" /\ last'.job = i) =>
                  /\ Appended
                  /\ k.complete_time = LastOf(k.messages).time
                  /\ k.state = COMPLETE
            /\ (last'.op = "job.fail" /\ last'.job = i) =>
                  /\ Appended
                  /\ k.fail_time = LastOf(k.messages).time
                  /\ k.state = FAILED]_vars

\* complete() called twice on a job: two messages, and complete_time is the
\* second call's time, later than the first
C4_Witness ==
    /\ last.op = "job.complete"
    /\ last.pre = COMPLETE
    /\ LET j == p.jobs[last.job]
       IN  /\ Len(j.messages) = 2
           /\ j.messages[1].message = JobCompleteMsg
           /\ j.messages[2].message = JobCompleteMsg
           /\ j.messages[1].time # j.messages[2].time
           /\ j.complete_time = j.messages[2].time
           /\ j.state = COMPLETE

\* C5: add_job(name) makes p.jobs one longer, puts the new job at the end
\* with the earlier jobs as they were, returns the new job and makes
\* p.active_job the returned job.
C5_AddJobAppends ==
    [][last'.op = "add_job" =>
            /\ Len(p'.jobs) = Len(p.jobs) + 1
            /\ SubSeq(p'.jobs, 1, Len(p.jobs)) = p.jobs
            /\ LastOf(p'.jobs).name = last'.arg
            /\ last'.ret = JobRef(Len(p'.jobs))
            /\ active_job(active') = last'.ret]_vars

\* add_job("stage1") then add_job("stage2") on a fresh pipeline
C5_Witness ==
    /\ last.op = "add_job"
    /\ obj = 1
    /\ p.state = READY
    /\ p.messages = <<>>
    /\ Len(p.jobs) = 2
    /\ p.jobs[1].name = "stage1"
    /\ p.jobs[2].name = "stage2"
    /\ last.ret = JobRef(2)
    /\ active_job(active) = JobRef(2)

\* C6: the active-job reference is absent or is the last element of jobs, and
\* the active_job accessor returns the job added last, being absent exactly
\* when add_job has not been called on the object.
C6_ActiveJobIsLast ==
    /\ active = 0 \/ active = Len(p.jobs)
    /\ added > 0 => active_job(active) = JobRef(Len(p.jobs))
    /\ added = 0 => active_job(active) = None

\* a pipeline loaded by from_dict with one job, on which add_job was then
\* called
C6_Witness ==
    /\ obj = 2
    /\ added = 1
    /\ Len(p.jobs) = 2
    /\ active_job(active) = JobRef(2)

\* a loaded pipeline that holds a job and has no active job
C6_LoadedHasNoActiveJob ==
    /\ obj = 2
    /\ added = 0
    /\ Len(p.jobs) = 1
    /\ active_job(active) = None

\* C7: from_dict applied to the serialized form of a pipeline yields a
\* pipeline equal to it in name, state, the three timestamps, every message
\* and the whole list of jobs with their names, states, timestamps and
\* messages.
C7_RoundTrip ==
    LET r == PipelineStatus_from_dict(PipelineStatus_serialize(p), clock)
    IN  /\ r.ok
        /\ r.self = p

\* the round trip of a pipeline whose only job is RUNNING yields a job that is
\* READY, whatever the form of the timestamps
C7_JobStateLost ==
    /\ Len(p.jobs) = 1
    /\ p.jobs[1].state = RUNNING
    /\ LET r == PipelineStatus_from_dict(PipelineStatus_serialize(p), clock)
       IN  /\ r.ok
           /\ r.self.jobs[1].state = READY

\* C8: publish() with no sink raises nothing and changes no field; with a
\* sink set by set_publish_callback (and kept by every other method) it calls
\* that sink exactly once before it returns, passing the pipeline object
\* itself, which is as the earlier operations left it.
C8_PublishCallsSinkOnce ==
    [][/\ last'.op = "set_publish_callback" => sink' = last'.arg
       /\ last'.op \notin {"set_publish_callback", "from_dict"} => sink' = sink
       /\ last'.op = "publish" =>
            /\ p' = p
            /\ UNCHANGED Runtime
            /\ IF sink = NoSink
               THEN /\ last'.calls = <<>>
                    /\ last'.exc = "none"
               ELSE /\ Len(last'.calls) = 1
                    /\ last'.calls[1].sink = sink
                    /\ last'.calls[1].arg = obj]_vars

\* publish() after a start() and a set_publish_callback: the sink was called
\* once with this object, which is RUNNING
C8_Witness ==
    /\ last.op = "publish"
    /\ sink \in Sinks
    /\ last.calls = <<SinkCall(sink, obj, "return")>>
    /\ last.exc = "none"
    /\ p.state = RUNNING
    /\ p.messages # <<>>

\* publish() on a pipeline that has no sink
C8_NoSinkPublished ==
    /\ last.op = "publish"
    /\ sink = NoSink
    /\ last.calls = <<>>
    /\ p.state = RUNNING

\* C9: when the sink fails, its failure leaves publish() unchanged, the sink
\* has been called exactly once, and the state, timestamps, messages, jobs
\* and sink of the pipeline are what they were before the call.
C9_SinkFailurePropagates ==
    [][(/\ last'.op = "publish"
        /\ \E c \in DOMAIN last'.calls : last'.calls[c].outcome = "raise") =>
            /\ last'.exc = SinkError
            /\ Len(last'.calls) = 1
            /\ p' = p
            /\ UNCHANGED Runtime]_vars

\* publish() on a RUNNING pipeline with a job, whose sink raised
C9_Witness ==
    /\ last.op = "publish"
    /\ last.exc = SinkError
    /\ Len(last.calls) = 1
    /\ last.calls[1].outcome = "raise"
    /\ p.state = RUNNING
    /\ Len(p.jobs) = 1

Texts(ms) == [i \in DOMAIN ms |-> ms[i].message]

\* start(); add_job("resize"); job.start(); job.fail(); complete(): the logs
\* of a pipeline and of its only job after these calls
C10_ScenarioRan ==
    /\ Texts(p.messages) = <<PipelineStartMsg, PipelineCompleteMsg>>
    /\ Len(p.jobs) = 1
    /\ p.jobs[1].name = "resize"
    /\ Texts(p.jobs[1].messages) = <<JobStartMsg, JobFailMsg>>

C10_ScenarioResult ==
    C10_ScenarioRan =>
        /\ p.jobs[1].state = FAILED
        /\ p.jobs[1].fail_time # None
        /\ Len(p.jobs[1].messages) = 2
        /\ p.state = COMPLETE

\* C10: complete() on a RUNNING pipeline sets the state COMPLETE whatever
\* the states of its jobs, no call on a job changes the state of the
\* pipeline, and after start(); add_job("resize"); job.start(); job.fail();
\* complete() the job is FAILED with fail_time set and two messages and the
\* pipeline is COMPLETE.
C10_CompletionIgnoresJobs ==
    /\ []C10_ScenarioResult
    /\ [][/\ last'.job # 0 => p'.state = p.state
          /\ (last'.op = "complete" /\ p.state = RUNNING) => p'.state = COMPLETE]_vars

\* the end of the scenario: complete() on a RUNNING pipeline whose job failed
C10_Witness ==
    /\ C10_ScenarioRan
    /\ last.op = "complete"
    /\ last.pre = RUNNING
    /\ p.state = COMPLETE
    /\ p.jobs[1].state = FAILED
    /\ p.jobs[1].fail_time = p.jobs[1].messages[2].time

\* C11 as stated: once p.state is COMPLETE or FAILED, no operation changes
\* p.state.
C11_TerminalStates ==
    [][p.state \in {COMPLETE, FAILED} => p'.state = p.state]_vars

\* C11 amended: once p.state is COMPLETE or FAILED, no operation other than
\* start(), complete() and fail() changes p.state, complete() on COMPLETE and
\* fail() on FAILED leave it, and p.state never returns to READY, QUEUED or
\* SCHEDULED; start() moves it to RUNNING, fail() moves a COMPLETE pipeline to
\* FAILED and complete() moves a FAILED pipeline to COMPLETE.
C11_TerminalUnlessLifecycle ==
    [][p.state \in {COMPLETE, FAILED} =>
            /\ last'.op \notin {"start", "complete", "fail"} => p'.state = p.state
            /\ last'.op = "start" => p'.state = RUNNING
            /\ last'.op = "complete" => p'.state = COMPLETE
            /\ last'.op = "fail" => p'.state = FAILED
            /\ p'.state \in {RUNNING, COMPLETE, FAILED}]_vars

\* fail() called on a COMPLETE pipeline: it is FAILED and keeps complete_time
C11_Witness ==
    /\ last.op = "fail"
    /\ last.pre = COMPLETE
    /\ p.state = FAILED
    /\ p.complete_time # None
    /\ p.fail_time = LastOf(p.messages).time

\* C12 as stated: once start_time, complete_time or fail_time of a pipeline
\* is non-null, its value never changes again.
C12_TimestampsSetOnce ==
    [][/\ p.start_time # None => p'.start_time = p.start_time
       /\ p.complete_time # None => p'.complete_time = p.complete_time
       /\ p.fail_time # None => p'.fail_time = p.fail_time]_vars

\* C12 amended: once non-null, a timestamp of a pipeline never becomes null
\* again, and a timestamp changes only when its own method is called outside
\* the method's target state (start() on a pipeline that is not RUNNING,
\* complete() on one that is not COMPLETE, fail() on one that is not FAILED),
\* which overwrites it with the time read by that call.
C12_TimestampsSetByOwnCall ==
    [][/\ p.start_time # None => p'.start_time # None
       /\ p.complete_time # None => p'.complete_time # None
       /\ p.fail_time # None => p'.fail_time # None
       /\ p'.start_time # p.start_time =>
            /\ last'.op = "start"
            /\ p.state # RUNNING
            /\ p'.start_time = Instant(clock')
       /\ p'.complete_time # p.complete_time =>
            /\ last'.op = "complete"
            /\ p.state # COMPLETE
            /\ p'.complete_time = Instant(clock')
       /\ p'.fail_time # p.fail_time =>
            /\ last'.op = "fail"
            /\ p.state # FAILED
            /\ p'.fail_time = Instant(clock')]_vars

\* start(); fail(); start(): the second start() overwrote start_time with a
\* later time
C12_Witness ==
    /\ last.op = "start"
    /\ last.pre = FAILED
    /\ Texts(p.messages) = <<PipelineStartMsg, PipelineFailMsg, PipelineStartMsg>>
    /\ p.start_time = p.messages[3].time
    /\ p.start_time # p.messages[1].time

\* the job's log holds a message with this text: the lifecycle methods are
\* called with their default messages and add_message with another text, so
\* the text tells which methods have been called on the job
Logged(j, text) == \E k \in DOMAIN j.messages : j.messages[k].message = text

\* C13 as stated: at most one of complete_time and fail_time of a job is
\* non-null, and a job that has failed is not COMPLETE later.
C13_AtMostOneOutcome ==
    \A i \in Jobs :
        /\ p.jobs[i].complete_time = None \/ p.jobs[i].fail_time = None
        /\ p.jobs[i].fail_time # None => p.jobs[i].state # COMPLETE

\* C13 amended: complete_time of a job is non-null exactly when complete()
\* has been called on it and fail_time exactly when fail() has been called,
\* so both are non-null once both have been called; every complete(), also
\* on a job that has failed, leaves the job COMPLETE.
C13_OutcomeTimesFollowCalls ==
    /\ \A i \in Jobs :
            /\ p.jobs[i].complete_time # None <=> Logged(p.jobs[i], JobCompleteMsg)
            /\ p.jobs[i].fail_time # None <=> Logged(p.jobs[i], JobFailMsg)
    /\ last.op = "job.complete" => p.jobs[last.job].state = COMPLETE

\* fail() then complete() on a job: it is COMPLETE and both times are set
C13_Witness ==
    /\ last.op = "job.complete"
    /\ last.pre = FAILED
    /\ LET j == p.jobs[last.job]
       IN  /\ j.state = COMPLETE
           /\ j.fail_time # None
           /\ j.complete_time # None
           /\ Texts(j.messages) = <<JobFailMsg, JobCompleteMsg>>

\* C14 as stated: once the state of a job is COMPLETE, FAILED or SKIPPED no
\* job operation changes it, and SKIPPED is entered only from READY.
C14_JobTerminalStates ==
    [][\A i \in Jobs :
        /\ p.jobs[i].state \in {COMPLETE, FAILED, SKIPPED} =>
              p'.jobs[i].state = p.jobs[i].state
        /\ (p'.jobs[i].state = SKIPPED /\ p.jobs[i].state # SKIPPED) =>
              p.jobs[i].state = READY]_vars

\* C14 amended: once the state of a job is COMPLETE, FAILED or SKIPPED,
\* add_message and the calls on other objects do not change it and it never
\* returns to READY, QUEUED or SCHEDULED; skip(), start(), complete() and
\* fail() set it to SKIPPED, RUNNING, COMPLETE and FAILED from any state.
C14_JobStateFollowsLastCall ==
    [][\A i \in Jobs :
        LET Called(op) == last'.op = op /\ last'.job = i
        IN  /\ Called("job.skip") => p'.jobs[i].state = SKIPPED
            /\ Called("job.start") => p'.jobs[i].state = RUNNING
            /\ Called("job.complete") => p'.jobs[i].state = COMPLETE
            /\ Called("job.fail") => p'.jobs[i].state = FAILED
            /\ (last'.job # i \/ last'.op = "job.add_message") =>
                  p'.jobs[i].state = p.jobs[i].state
            /\ p.jobs[i].state \in {COMPLETE, FAILED, SKIPPED} =>
                  p'.jobs[i].state \in {SKIPPED, RUNNING, COMPLETE, FAILED}]_vars

\* skip() called on a COMPLETE job: it is SKIPPED
C14_Witness ==
    /\ last.op = "job.skip"
    /\ last.pre = COMPLETE
    /\ LET j == p.jobs[last.job]
       IN  /\ j.state = SKIPPED
           /\ j.complete_time # None
           /\ Texts(j.messages) = <<JobCompleteMsg, JobSkipMsg>>

\* C15 as stated: complete() on a FAILED pipeline leaves the state FAILED,
\* complete_time unchanged and appends no message; complete() on a FAILED job
\* overwrites the state with COMPLETE.
C15_CompleteOnFailedIsNoOp ==
    [][/\ (last'.op = "complete" /\ p.state = FAILED) =>
            /\ p'.state = FAILED
            /\ p'.complete_time = p.complete_time
            /\ p'.messages = p.messages
       /\ \A i \in Jobs :
            (last'.op = "job.complete" /\ last'.job = i /\ p.jobs[i].state = FAILED) =>
                p'.jobs[i].state = COMPLETE]_vars

\* C15 amended: complete() on a FAILED pipeline appends one message, sets
\* complete_time to that message's time and sets the state to COMPLETE,
\* keeping fail_time; complete() on a FAILED job does the same to the job.
C15_CompleteOnFailedOverwrites ==
    [][/\ (last'.op = "complete" /\ p.state = FAILED) =>
            /\ p'.state = COMPLETE
            /\ Len(p'.messages) = Len(p.messages) + 1
            /\ SubSeq(p'.messages, 1, Len(p.messages)) = p.messages
            /\ p'.complete_time = LastOf(p'.messages).time
            /\ p'.fail_time = p.fail_time
       /\ \A i \in Jobs :
            (last'.op = "job.complete" /\ last'.job = i /\ p.jobs[i].state = FAILED) =>
                /\ p'.jobs[i].state = COMPLETE
                /\ Len(p'.jobs[i].messages) = Len(p.jobs[i].messages) + 1
                /\ p'.jobs[i].complete_time = LastOf(p'.jobs[i].messages).time
                /\ p'.jobs[i].fail_time = p.jobs[i].fail_time]_vars

\* fail() then complete() on a pipeline and on its job: both are COMPLETE
\* and hold both times
C15_Witness ==
    /\ Texts(p.messages) = <<PipelineFailMsg, PipelineCompleteMsg>>
    /\ p.state = COMPLETE
    /\ p.fail_time # None
    /\ p.complete_time = p.messages[2].time
    /\ Len(p.jobs) = 1
    /\ Texts(p.jobs[1].messages) = <<JobFailMsg, JobCompleteMsg>>
    /\ p.jobs[1].state = COMPLETE
    /\ p.jobs[1].fail_time # None

OptionalKeys == {"jobs", "messages", "start_time", "complete_time", "fail_time"}
RequiredKeys == {"name", "state"}

\* C16: from_dict of a pipeline payload or of a job payload that lacks an
\* optional key raises nothing: a missing jobs or messages key yields an empty
\* sequence and a missing timestamp key an absent timestamp.
C16_OptionalKeysDefault ==
    (last.op = "from_dict" /\ last.arg \in OptionalKeys) =>
        /\ last.exc = "none"
        /\ LET o == IF last.job = 0 THEN p ELSE p.jobs[last.job]
           IN  IF last.arg \in {"jobs", "messages"}
               THEN o[last.arg] = <<>>
               ELSE o[last.arg] = None

\* PipelineStatus.from_dict raised KeyError on a payload without messages
C16_PipelineMessagesRequired ==
    /\ last.op = "from_dict"
    /\ last.job = 0
    /\ last.arg = "messages"
    /\ last.exc = "KeyError"
    /\ obj = 1

\* C17: from_dict of a pipeline payload or of a job payload that lacks the
\* key name or the key state fails with an error and produces no object.
C17_RequiredKeysFail ==
    (last.op = "from_dict" /\ last.arg \in RequiredKeys) =>
        /\ last.exc # "none"
        /\ obj = 1

\* a pipeline was loaded from a payload whose job has no state: the job is READY
C17_JobLoadedWithoutState ==
    /\ last.op = "from_dict"
    /\ last.job = 1
    /\ last.arg = "state"
    /\ last.pre = RUNNING
    /\ last.exc = "none"
    /\ obj = 2
    /\ p.jobs[1].state = READY

\* C18: the pipeline that from_dict produces has no sink and no active job,
\* whatever the serialized pipeline had; a pipeline without a sink stays so
\* until set_publish_callback is called and publish() on it invokes nothing;
\* active_job is absent as long as add_job has not been called on the object.
C18_LoadedHasNoSinkNoActiveJob ==
    [][/\ last'.op = "from_dict" =>
            /\ obj' # obj
            /\ sink' = NoSink
            /\ active_job(active') = None
            /\ added' = 0
       /\ (sink = NoSink /\ last'.op # "set_publish_callback") => sink' = NoSink
       /\ (sink = NoSink /\ last'.op = "publish") =>
            /\ last'.calls = <<>>
            /\ last'.exc = "none"
       /\ (added = 0 /\ last'.op # "add_job") => active_job(active') = None]_vars

\* from_dict of a pipeline that had a sink and an active job: the loaded
\* pipeline holds the job and has neither
C18_Witness ==
    /\ last.op = "from_dict"
    /\ last.arg \in Sinks
    /\ obj = 2
    /\ Len(p.jobs) = 1
    /\ sink = NoSink
    /\ active_job(active) = None

\* every timestamp of the wire format of a pipeline
MessageTimes(ms) == [k \in DOMAIN ms |-> ms[k].time]
Times(q) ==
    [start_time |-> q.start_time, complete_time |-> q.complete_time,
     fail_time |-> q.fail_time, messages |-> MessageTimes(q.messages),
     jobs |-> [i \in DOMAIN q.jobs |->
                  [start_time |-> q.jobs[i].start_time,
                   complete_time |-> q.jobs[i].complete_time,
                   fail_time |-> q.jobs[i].fail_time,
                   messages |-> MessageTimes(q.jobs[i].messages)]]]

\* C19: after from_dict, the pipeline's three timestamps, each job's three
\* timestamps and every message's time are instants, not strings, and equal
\* the instants that were serialized.
C19_LoadedTimesAreInstants ==
    [][last'.op = "from_dict" =>
            /\ Times(p') = Times(p)
            /\ p'.start_time.kind # "str"
            /\ p'.complete_time.kind # "str"
            /\ p'.fail_time.kind # "str"]_vars

\* a loaded pipeline whose start_time is a string while the times of its
\* messages are instants
C19_PipelineStartTimeIsString ==
    /\ last.op = "from_dict"
    /\ obj = 2
    /\ p.start_time.kind = "str"
    /\ p.messages # <<>>
    /\ p.messages[1].time.kind = "datetime"

\* C20: from_dict loads every job with the state it was serialized with.
C20_JobStatePreserved ==
    [][last'.op = "from_dict" =>
            /\ Len(p'.jobs) = Len(p.jobs)
            /\ \A i \in Jobs : p'.jobs[i].state = p.jobs[i].state]_vars

\* a pipeline loaded from one whose job was COMPLETE: the job is READY and
\* holds its complete_time
C20_CompleteJobLoadedReady ==
    /\ last.op = "from_dict"
    /\ obj = 2
    /\ Len(p.jobs) = 1
    /\ p.jobs[1].complete_time # None
    /\ p.jobs[1].state = READY

\* the timestamps and the state of a pipeline or of a job
Stamps(o) == <<o.state, o.start_time, o.complete_time, o.fail_time>>

\* the log after is the log before with one message appended, holding the
\* text and the time read by the call
AppendedOne(before, after, text) ==
    /\ Len(after) = Len(before) + 1
    /\ SubSeq(after, 1, Len(before)) = before
    /\ LastOf(after) = [message |-> text, time |-> Instant(clock')]

IsPrefix(before, after) ==
    /\ Len(before) <= Len(after)
    /\ SubSeq(after, 1, Len(before)) = before

\* C22: for every operation on an object, the messages of the pipeline and
\* of each job before the operation are a prefix of those after it, and the
\* jobs before it are at the same positions after it (a job is known by its
\* name and its log).
C22_LogsAppendOnly ==
    [][obj' = obj =>
            /\ IsPrefix(p.messages, p'.messages)
            /\ Len(p.jobs) <= Len(p'.jobs)
            /\ \A i \in Jobs :
                  /\ p'.jobs[i].name = p.jobs[i].name
                  /\ IsPrefix(p.jobs[i].messages, p'.jobs[i].messages)]_vars

\* a second job added after a message was logged on the first
C22_Witness ==
    /\ last.op = "add_job"
    /\ Len(p.jobs) = 2
    /\ Texts(p.jobs[1].messages) = <<JobStartMsg, CustomMsg>>
    /\ p.jobs[2].messages = <<>>

\* the state in which a lifecycle method of the pipeline returns early
Target(op) ==
    IF op = "start" THEN RUNNING ELSE IF op = "complete" THEN COMPLETE ELSE FAILED

\* the timestamps of a pipeline, the one the method sets first
OwnTime(q, op) ==
    IF op = "start" THEN q.start_time
    ELSE IF op = "complete" THEN q.complete_time ELSE q.fail_time
OtherTimes(q, op) ==
    IF op = "start" THEN <<q.complete_time, q.fail_time>>
    ELSE IF op = "complete" THEN <<q.start_time, q.fail_time>>
    ELSE <<q.start_time, q.complete_time>>

\* the call appended one message and set its own timestamp, and only that
\* one, to the time of that message
AppendedAndStamped(op) ==
    /\ Len(p'.messages) = Len(p.messages) + 1
    /\ SubSeq(p'.messages, 1, Len(p.messages)) = p.messages
    /\ OwnTime(p', op) = LastOf(p'.messages).time
    /\ OtherTimes(p', op) = OtherTimes(p, op)

\* C23 as stated: every call of start, complete and fail on a pipeline, in
\* any state, appends exactly one message and sets exactly one timestamp.
C23_LifecycleCallAppendsOne ==
    [][last'.op \in {"start", "complete", "fail"} => AppendedAndStamped(last'.op)]_vars

\* C23 amended: every call of start, complete and fail made outside the
\* method's own target state appends exactly one message and sets exactly one
\* timestamp, its own, to that message's time; a call made in the target
\* state appends no message and sets no timestamp.
C23_LifecycleCallOutsideTarget ==
    [][last'.op \in {"start", "complete", "fail"} =>
            IF p.state = Target(last'.op)
            THEN p' = p
            ELSE AppendedAndStamped(last'.op)]_vars

\* complete() on a RUNNING pipeline: one more message, complete_time is its
\* time and start_time is the start's
C23_Witness ==
    /\ last.op = "complete"
    /\ last.pre = RUNNING
    /\ Texts(p.messages) = <<PipelineStartMsg, PipelineCompleteMsg>>
    /\ p.start_time = p.messages[1].time
    /\ p.complete_time = p.messages[2].time
    /\ p.complete_time # p.start_time
    /\ p.fail_time = None

\* C24: skip() on a job in any state appends exactly one message, sets the
\* state to SKIPPED and leaves start_time, complete_time and fail_time as
\* they were.
C24_SkipSetsNoTimestamp ==
    [][\A i \in Jobs :
        (last'.op = "job.skip" /\ last'.job = i) =>
            /\ AppendedOne(p.jobs[i].messages, p'.jobs[i].messages, JobSkipMsg)
            /\ p'.jobs[i].state = SKIPPED
            /\ p'.jobs[i].start_time = p.jobs[i].start_time
            /\ p'.jobs[i].complete_time = p.jobs[i].complete_time
            /\ p'.jobs[i].fail_time = p.jobs[i].fail_time]_vars

\* skip() on a RUNNING job: it is SKIPPED, keeps its start_time and has no
\* other time
C24_Witness ==
    /\ last.op = "job.skip"
    /\ last.pre = RUNNING
    /\ LET j == p.jobs[last.job]
       IN  /\ j.state = SKIPPED
           /\ Texts(j.messages) = <<JobStartMsg, JobSkipMsg>>
           /\ j.start_time = j.messages[1].time
           /\ j.start_time # j.messages[2].time
           /\ j.complete_time = None
           /\ j.fail_time = None

\* C25: set_publish_callback(B) replaces the sink the pipeline had: the sink
\* is B until the next set_publish_callback, every publish() invokes the
\* current sink exactly once and no other sink, and set_publish_callback
\* itself invokes no sink and changes no serialized field.
C25_SinkIsReplaced ==
    [][/\ last'.op = "set_publish_callback" =>
            /\ sink' = last'.arg
            /\ last'.calls = <<>>
            /\ last'.exc = "none"
            /\ p' = p
            /\ UNCHANGED <<active, clock, obj, added>>
       /\ (last.op = "set_publish_callback" /\ last'.op # "set_publish_callback"
              /\ obj' = obj) => sink' = last.arg
       /\ (last'.op = "publish" /\ sink \in Sinks) =>
            /\ Len(last'.calls) = 1
            /\ \A c \in DOMAIN last'.calls : last'.calls[c].sink = sink]_vars

\* set_publish_callback("sinkB") on a pipeline whose sink was "sinkA"
C25_Witness ==
    /\ last.op = "set_publish_callback"
    /\ last.oldsink = "sinkA"
    /\ last.arg = "sinkB"
    /\ sink = "sinkB"
    /\ p.messages # <<>>

\* C26: add_job(name) raises nothing in any state of the pipeline and leaves
\* that state; the job it creates is a new last element of p.jobs, READY,
\* with null start_time, complete_time, fail_time and no messages, also when
\* a job of that name exists; no operation changes a job other than the one
\* it is called on.
C26_AddJobCreatesFreshJob ==
    [][/\ last'.op = "add_job" =>
            /\ last'.exc = "none"
            /\ p'.state = p.state
            /\ Len(p'.jobs) = Len(p.jobs) + 1
            /\ LastOf(p'.jobs).name = last'.arg
            /\ Stamps(LastOf(p'.jobs)) = <<READY, None, None, None>>
            /\ LastOf(p'.jobs).messages = <<>>
       /\ \A i \in Jobs : last'.job # i => p'.jobs[i] = p.jobs[i]]_vars

\* add_job("resize") on a COMPLETE pipeline that holds a RUNNING job of the
\* same name: two jobs, the new one READY and empty
C26_Witness ==
    /\ last.op = "add_job"
    /\ last.pre = COMPLETE
    /\ p.state = COMPLETE
    /\ Len(p.jobs) = 2
    /\ p.jobs[1].name = p.jobs[2].name
    /\ p.jobs[1].state = RUNNING
    /\ Len(p.jobs[1].messages) = 1
    /\ p.jobs[2].state = READY
    /\ p.jobs[2].messages = <<>>

\* C27: a call on a job changes only that job and leaves the pipeline's
\* state, timestamps, messages, other jobs, active job and sink unchanged;
\* start, complete, fail and add_message on the pipeline change no job and
\* neither the jobs nor the active job.
C27_FrameOfOwnership ==
    [][/\ \A i \in Jobs :
            last'.job = i =>
                /\ [p' EXCEPT !.jobs[i] = p.jobs[i]] = p
                /\ active' = active
                /\ sink' = sink
       /\ last'.op \in {"start", "complete", "fail", "add_message"} =>
            /\ p'.jobs = p.jobs
            /\ active' = active]_vars

\* start() on the first job of a RUNNING pipeline whose active job is the
\* second
C27_Witness ==
    /\ last.op = "job.start"
    /\ last.job = 1
    /\ active = 2
    /\ Len(p.jobs) = 2
    /\ p.jobs[1].state = RUNNING
    /\ p.jobs[2].state = READY
    /\ p.state = RUNNING
    /\ Len(p.messages) = 1

\* C28: constructing a PipelineStatus or a JobStatus without a name, or a
\* StatusMessage without a text, fails and yields no object: no call given a
\* missing name returns, and no object holds a missing name or text or a
\* default in its place.
C28_MissingNameFails ==
    /\ (last.op \in {"__init__", "add_job"} /\ last.arg = NoName) => last.exc # "none"
    /\ p.name \notin {"", NoName}
    /\ \A i \in Jobs : p.jobs[i].name # NoName
    /\ \A k \in DOMAIN p.messages : p.messages[k].message # NoName

\* PipelineStatus(None) returned a pipeline whose name is ""
C28_PipelineNameDefaulted ==
    /\ last.op = "__init__"
    /\ last.arg = NoName
    /\ last.exc = "none"
    /\ p.name = ""

\* JobStatus(None) and StatusMessage(None) returned objects that hold None
C28_NullNameAndTextKept ==
    /\ Len(p.jobs) = 1
    /\ p.jobs[1].name = NoName
    /\ Len(p.messages) = 1
    /\ p.messages[1].message = NoName

\* the state and the timestamps of a pipeline or a job agree; startText is
\* the text start() logs on that kind of object
Consistent(o, startText) ==
    /\ o.state = RUNNING => o.start_time # None
    /\ o.state = COMPLETE => o.complete_time # None
    /\ o.state = FAILED => o.fail_time # None
    /\ o.state = READY => <<o.start_time, o.complete_time, o.fail_time>> = <<None, None, None>>
    /\ o.start_time # None => Logged(o, startText)

\* C29: in every reachable state of a pipeline and of its jobs, created READY
\* and driven through their methods, RUNNING implies a start_time, COMPLETE a
\* complete_time, FAILED a fail_time, READY implies no timestamp, and
\* start_time is null until start() has been called on the object.
C29_StateAndTimesConsistent ==
    /\ Consistent(p, PipelineStartMsg)
    /\ \A i \in Jobs : Consistent(p.jobs[i], JobStartMsg)

\* a pipeline completed without having been started, holding a job that was
\* started and then failed
C29_Witness ==
    /\ p.state = COMPLETE
    /\ p.start_time = None
    /\ p.complete_time # None
    /\ Len(p.jobs) = 1
    /\ p.jobs[1].state = FAILED
    /\ p.jobs[1].start_time # None
    /\ p.jobs[1].fail_time # None
    /\ p.jobs[1].complete_time = None

TimeFields == {"start_time", "complete_time", "fail_time"}

\* every timestamp of the object is the time of a message of its own log
TimesLogged(o) ==
    /\ \A f \in TimeFields :
            o[f] # None => \E k \in DOMAIN o.messages : o.messages[k].time = o[f]
    /\ Len(o.messages) >= Cardinality({f \in TimeFields : o[f] # None})

\* C30: every non-null start_time, complete_time or fail_time of a pipeline
\* or a job equals the time of some message in that object's log, and the
\* object has at least as many messages as non-null timestamps.
C30_TimesAreMessageTimes ==
    /\ TimesLogged(p)
    /\ \A i \in Jobs : TimesLogged(p.jobs[i])

\* start(); complete(); fail() at two different times: three timestamps and
\* three messages
C30_Witness ==
    /\ Texts(p.messages) = <<PipelineStartMsg, PipelineCompleteMsg, PipelineFailMsg>>
    /\ p.start_time = p.messages[1].time
    /\ p.complete_time = p.messages[2].time
    /\ p.fail_time = p.messages[3].time
    /\ p.start_time # p.fail_time

\* C31: a pipeline created READY and driven through its methods is always
\* READY, RUNNING, COMPLETE or FAILED, and a job created by add_job and driven
\* through its methods is always READY, RUNNING, COMPLETE, FAILED or SKIPPED:
\* no method produces QUEUED or SCHEDULED.
C31_NoQueuedNoScheduled ==
    /\ p.state \in {READY, RUNNING, COMPLETE, FAILED}
    /\ \A i \in Jobs : p.jobs[i].state \in {READY, RUNNING, COMPLETE, FAILED, SKIPPED}

\* a RUNNING pipeline whose job was started and then skipped
C31_Witness ==
    /\ p.state = RUNNING
    /\ Len(p.jobs) = 1
    /\ p.jobs[1].state = SKIPPED
    /\ Texts(p.jobs[1].messages) = <<JobStartMsg, JobSkipMsg>>
    /\ last.op = "start"

====
